---- MODULE Spec2Model ----
(***************************************************************************)
(* The playback session of the music player: the React provider            *)
(* (AudioPlayerProvider.tsx), the audio engine it drives (AudioEngine.ts)   *)
(* and the YouTube controller (services/mediaSession.ts).                   *)
(*                                                                          *)
(* Units: volume in hundredths (0.7 is 70), gains in dB, times in tenths    *)
(* of a second (the end-of-track epsilon 0.1 s is 1).                       *)
(*                                                                          *)
(* Scheduling: every handler runs as one browser task; React commits the   *)
(* batched updates and runs the effects before the next task (Commit).     *)
(* The continuations of loadTrack are microtasks: they run, in FIFO order, *)
(* before any other task (Idle).                                            *)
(***************************************************************************)
EXTENDS Integers, Sequences, FiniteSets, TLC

VARIABLES
  state,     \* the provider's React state (AudioPlayerState)
  engine,    \* the AudioEngine object's fields
  stale,     \* replaced audio elements that carry the provider's metadata
             \* listener and have not fired 'loadedmetadata' yet
  loads,     \* FIFO of the pending continuations of loadTrack calls
  ytLoads,   \* the loadYouTube calls awaiting YouTubeController.load
  yt,        \* the YouTubeController module state and its player
  frame,     \* whether a requestAnimationFrame(updateTime) callback is pending
  ut,        \* what the pending updateTime closure captured and does not depend on
  page,      \* the rest of the page: whether the provider is mounted, the
             \* render loadTrack was created in, the media session's action
             \* handlers, frame callbacks animationFrameRef no longer names
  op         \* history: the step that ran last, its code path and arguments

vars == <<state, engine, stale, loads, ytLoads, yt, frame, ut, page, op>>

----------------------------------------------------------------------------
(* Bounds of the model *)

MaxPlaylist == 3   \* longest playlist
MaxStale == 1      \* replaced audio elements still to fire 'loadedmetadata'
MaxYtLoads == 1    \* loadYouTube calls in flight
MediaLen == 2      \* length of every playable medium, in tenths of a second
MaxTime == 4       \* latest time a seek asks for, in tenths of a second

(* Program constants *)

EndEpsilon == 1    \* 0.1 s
NumBands == 10
MaxVolume == 100   \* 1.0
DefaultVolume == 70
MinGain == 0 - 12
MaxGain == 12
SeekJump == 300    \* 30 s

----------------------------------------------------------------------------
(* Values *)

NoTrack == [null |-> TRUE]
NoAudio == [null |-> TRUE]
Undefined == [undefined |-> TRUE]
IsTrack(t) == "id" \in DOMAIN t

Min(a, b) == IF a < b THEN a ELSE b
Max(a, b) == IF a > b THEN a ELSE b

RepeatModes == {"none", "all", "one"}

FlatEQ == [i \in 1..NumBands |-> 0]

\* initialEffects; each group is carried by its first parameter: roomSize and
\* rate in hundredths, amount, threshold in dB
EffectGroups == {"reverb", "chorus", "distortion", "compressor"}

initialEffects ==
  [ reverb |-> [roomSize |-> 30],
    chorus |-> [rate |-> 150],
    distortion |-> [amount |-> 0],
    compressor |-> [threshold |-> 0 - 24] ]

InitState ==
  [ currentTrack |-> NoTrack,
    isPlaying |-> FALSE,
    volume |-> DefaultVolume,
    currentTime |-> 0,
    duration |-> 0,
    isLoading |-> FALSE,
    playlist |-> <<>>,
    currentTrackIndex |-> 0 - 1,
    mode |-> "normal",
    equalizerBands |-> FlatEQ,
    effects |-> initialEffects,
    isShuffled |-> FALSE,
    repeatMode |-> "none",
    externalSource |-> "none" ]

InitEngine ==
  [ isInitialized |-> FALSE,
    graph |-> FALSE,          \* gainNode, equalizerNodes, ... exist
    gain |-> MaxVolume,       \* gainNode.gain.value (1 when created)
    eq |-> FlatEQ,            \* equalizerNodes[i].gain.value
    reverb |-> 50,            \* roomSize of the reverb impulse
    distortion |-> 0,         \* amount of the distortion curve
    compressor |-> 0 - 24,    \* compressorNode.threshold.value
    staleSources |-> FALSE,   \* a source node of a replaced element is
                              \* still connected to gainNode
    context |-> "none",       \* audioContext: none yet, running or closed
    edges |-> {},             \* the connections between the engine's nodes
    currentAudio |-> NoAudio ]

InitYT ==
  [ player |-> FALSE,     \* the YT.Player exists and is ready
    intent |-> FALSE,     \* the player is playing (playVideo / pauseVideo took effect)
    playing |-> FALSE,    \* state.playing, as last reported by onStateChange
    currentTime |-> 0,
    duration |-> 0,
    volume |-> MaxVolume ]

Closure(s) == [ playlist |-> s.playlist, volume |-> s.volume,
                equalizerBands |-> s.equalizerBands, effects |-> s.effects ]

NoHandlers == [kind |-> "none"]

\* supported is MediaSessionService.isSupported(): 'mediaSession' in navigator.
\* lt is the state of the render that created the current loadTrack, utlt the
\* one of the loadTrack the pending updateTime captured; they are read only
\* through the handlers loadTrack registers, so they are followed only where
\* the media session exists.
Untracked == [untracked |-> TRUE]

\* what the callbacks of one render read of that render's state
RenderOf(s) ==
  [ playlist |-> s.playlist, currentTrackIndex |-> s.currentTrackIndex,
    repeatMode |-> s.repeatMode, externalSource |-> s.externalSource,
    currentTime |-> s.currentTime, duration |-> s.duration,
    volume |-> s.volume, equalizerBands |-> s.equalizerBands,
    effects |-> s.effects ]

InitPage(supported) ==
  [ mounted |-> TRUE,
    supported |-> supported,
    lt |-> IF supported THEN RenderOf(InitState) ELSE Untracked,
    utlt |-> IF supported THEN RenderOf(InitState) ELSE Untracked,
    handlers |-> NoHandlers,
    strays |-> 0 ]

InitWith(supported) ==
  /\ state = InitState
  /\ engine = InitEngine
  /\ stale = 0
  /\ loads = <<>>
  /\ ytLoads = 0
  /\ yt = InitYT
  /\ frame = FALSE
  /\ ut = Closure(InitState)
  /\ page = InitPage(supported)
  /\ op = [name |-> "init", path |-> "", args |-> <<>>]

\* a browser without the Media Session API
Init == InitWith(FALSE)

\* a browser with the Media Session API
InitMediaSession == InitWith(TRUE)

----------------------------------------------------------------------------
(* A world is the part of the program state a handler reads and writes    *)
(* while it runs: w.state is what a setState updater receives as prev.    *)

World == [state |-> state, engine |-> engine, stale |-> stale, loads |-> loads, yt |-> yt,
          page |-> page]

SetState(w, s) == [w EXCEPT !.state = s]

----------------------------------------------------------------------------
(* AudioEngine *)

HasAudio(w) == w.engine.currentAudio # NoAudio
CurAudio(w) == w.engine.currentAudio

\* setupAudioGraph: the centre frequencies of the ten peaking filters
frequencies == <<32, 64, 125, 250, 500, 1000, 2000, 4000, 8000, 16000>>

\* equalizerNodes[index], named by its frequency
EqualizerNode(index) == "filter" \o ToString(frequencies[index + 1])

\* connectAudioGraph: gainNode into the filters, one into the next, the last
\* into the compressor, the distortion, the analyser and the destination; the
\* reverb, chorus, splitter and merger nodes are created and connected nowhere
ConnectAudioGraph ==
  { IF index = 0 THEN <<"gain", EqualizerNode(index)>>
    ELSE <<EqualizerNode(index - 1), EqualizerNode(index)>> :
      index \in 0..(Len(frequencies) - 1) }
  \cup { <<EqualizerNode(Len(frequencies) - 1), "compressor">>,
         <<"compressor", "distortion">>,
         <<"distortion", "analyser">>,
         <<"analyser", "destination">> }

\* initialize(): builds the context and the node graph once
EngineInitialize(w) ==
  IF w.engine.isInitialized THEN w
  ELSE [w EXCEPT !.engine.isInitialized = TRUE,
                 !.engine.context = "running",
                 !.engine.staleSources = FALSE,
                 !.engine.graph = TRUE,
                 !.engine.edges = ConnectAudioGraph,
                 !.engine.gain = MaxVolume,
                 !.engine.eq = FlatEQ,
                 !.engine.reverb = 50,
                 !.engine.distortion = 0,
                 !.engine.compressor = 0 - 24]

\* stop(): pause the current element and rewind it
EngineStop(w) ==
  IF HasAudio(w)
  THEN [w EXCEPT !.engine.currentAudio.paused = TRUE,
                 !.engine.currentAudio.currentTime = 0]
  ELSE w

\* play(): an element that has ended starts again from 0
EnginePlay(w) ==
  IF HasAudio(w)
  THEN [w EXCEPT !.engine.currentAudio.paused = FALSE,
                 !.engine.currentAudio.currentTime =
                    IF CurAudio(w).duration > 0 /\ @ >= CurAudio(w).duration THEN 0 ELSE @]
  ELSE w

\* pause()
EnginePause(w) ==
  IF HasAudio(w)
  THEN [w EXCEPT !.engine.currentAudio.paused = TRUE]
  ELSE w

\* the position an element takes when currentTime is assigned: the seek is
\* limited to the medium; before the metadata are known the value is kept as
\* the default playback start position
ElementPosition(a, time) ==
  IF a.duration > 0 THEN Max(0, Min(a.duration, time)) ELSE time

\* setCurrentTime(time)
EngineSetCurrentTime(w, time) ==
  IF HasAudio(w)
  THEN [w EXCEPT !.engine.currentAudio.currentTime = ElementPosition(CurAudio(w), time)]
  ELSE w

\* getCurrentTime(), getDuration(): 0 when nothing is loaded or the duration is NaN
EngineGetCurrentTime(w) == IF HasAudio(w) THEN CurAudio(w).currentTime ELSE 0
EngineGetDuration(w) == IF HasAudio(w) THEN CurAudio(w).duration ELSE 0

\* setVolume(volume): Math.max(0, Math.min(1, volume)) into the gain node
EngineClampVolume(volume) == Max(0, Min(MaxVolume, volume))

EngineSetVolume(w, volume) ==
  IF w.engine.graph
  THEN [w EXCEPT !.engine.gain = EngineClampVolume(volume)]
  ELSE w

\* setEqualizerBand(index, gain): index is the JS index, 0-based
EngineBandGain(gain) == gain

\* a setEqualizerBand that wraps the index into the ten filters
EngineSetWrappedBand(w, index, gain) ==
  IF w.engine.graph
  THEN [w EXCEPT !.engine.eq[(index % NumBands) + 1] = EngineBandGain(gain)]
  ELSE w

EngineSetEqualizerBand(w, index, gain) ==
  IF w.engine.graph /\ index >= 0 /\ index < NumBands
  THEN [w EXCEPT !.engine.eq[index + 1] = EngineBandGain(gain)]
  ELSE w

\* setAllEqualizerBands(gains): forEach over the gains given
RECURSIVE EngineSetBandsFrom(_, _, _)
EngineSetBandsFrom(w, gains, i) ==
  IF i > Len(gains) THEN w
  ELSE EngineSetBandsFrom(EngineSetEqualizerBand(w, i - 1, gains[i]), gains, i + 1)

EngineSetAllEqualizerBands(w, gains) == EngineSetBandsFrom(w, gains, 1)

\* a setReverbSettings that wires the convolver in beside the filters
EngineSetReverbConnecting(w, settings) ==
  IF w.engine.graph
  THEN [w EXCEPT !.engine.reverb = settings.roomSize,
                 !.engine.edges = @ \cup {<<"gain", "reverb">>, <<"reverb", "compressor">>}]
  ELSE w

\* setReverbSettings, setCompressorSettings, setDistortionAmount
EngineSetReverbSettings(w, settings) ==
  IF w.engine.graph THEN [w EXCEPT !.engine.reverb = settings.roomSize] ELSE w

EngineSetCompressorSettings(w, settings) ==
  IF w.engine.graph THEN [w EXCEPT !.engine.compressor = settings.threshold] ELSE w

EngineSetDistortionAmount(w, amount) ==
  IF w.engine.graph THEN [w EXCEPT !.engine.distortion = amount] ELSE w

\* the body of loadAudio(source) after the initialize check: stop the current
\* element, create the new one and connect its source node to the gain node
NewAudio(source) ==
  [src |-> source, paused |-> TRUE, currentTime |-> 0, duration |-> 0, listeners |-> 0,
   error |-> FALSE, connected |-> TRUE]

\* the replaced element stays alive behind its source node; it matters only
\* while it can still call the provider's listener
IsStale(a) == a # NoAudio /\ a.listeners > 0 /\ a.duration = 0 /\ ~a.error

EngineLoadAudioBody(w, source) ==
  LET w1 == EngineStop(w)
  IN [w1 EXCEPT !.stale = IF IsStale(w1.engine.currentAudio) THEN @ + 1 ELSE @,
                !.engine.staleSources = @ \/ (HasAudio(w1) /\ CurAudio(w1).connected),
                !.engine.currentAudio = NewAudio(source)]

\* dispose(): stop, disconnect the current source node, close the context.
\* close() of a context that is closed already returns a promise rejected
\* with InvalidStateError.
DisposePath(w) ==
  IF w.engine.context = "none" THEN "unused"
  ELSE IF w.engine.context = "running" THEN "closed"
  ELSE "InvalidStateError"

EngineDispose(w) ==
  LET w1 == EngineStop(w)
      w2 == IF HasAudio(w1)
            THEN [w1 EXCEPT !.engine.currentAudio.connected = FALSE]
            ELSE w1
  IN [w2 EXCEPT !.engine.context = IF @ = "none" THEN "none" ELSE "closed",
                !.engine.isInitialized = FALSE]

----------------------------------------------------------------------------
(* Playlist arithmetic *)

\* Array.prototype.splice: the index a start argument denotes
SpliceStart(len, start) ==
  IF start < 0 THEN Max(len + start, 0) ELSE Min(start, len)

\* reorderPlaylist's updater: splice(fromIndex, 1) then splice(toIndex, 0, movedTrack)
ReorderPlaylist(pl, fromIndex, toIndex) ==
  LET f == SpliceStart(Len(pl), fromIndex)
      n == Min(1, Len(pl) - f)
      movedTrack == IF n = 1 THEN pl[f + 1] ELSE Undefined
      rest == SubSeq(pl, 1, f) \o SubSeq(pl, f + n + 1, Len(pl))
      t == SpliceStart(Len(rest), toIndex)
  IN SubSeq(rest, 1, t) \o <<movedTrack>> \o SubSeq(rest, t + 1, Len(rest))

Ids(pl) == {pl[i].id : i \in 1..Len(pl)}

\* `${base}-${counter}`
Suffixed(base, counter) == base \o "-" \o ToString(counter)

\* a counter that is not searched for: always the first suffix
FirstCounter(existingIds, base) == 2

\* the smallest counter >= 2 whose suffixed id is free
FreeCounter(existingIds, base) ==
  CHOOSE k \in 2..(Cardinality(existingIds) + 2) :
    /\ Suffixed(base, k) \notin existingIds
    /\ \A j \in 2..(k - 1) : Suffixed(base, j) \in existingIds

\* an id that is not replaced when it is empty
NewIdWithoutFallback(pl, track, now) ==
  LET existingIds == Ids(pl)
  IN IF track.id \in existingIds
     THEN Suffixed(track.id, FreeCounter(existingIds, track.id))
     ELSE track.id

\* the id addToPlaylist gives the new entry; now is Date.now()
NewId(pl, track, now) ==
  LET existingIds == Ids(pl)
      id == IF track.id # "" THEN track.id ELSE "track-" \o ToString(now)
  IN IF id \in existingIds THEN Suffixed(id, FreeCounter(existingIds, id)) ELSE id

AddToPlaylist(pl, track, now) ==
  Append(pl, [track EXCEPT !.id = NewId(pl, track, now)])

\* removeFromPlaylist's updater: filter(track => track.id !== trackId)
RemoveFromPlaylist(pl, trackId) ==
  SelectSeq(pl, LAMBDA track : track.id # trackId)

\* nextTrack's index
\* a nextTrack index that never wraps
NextIndexClamped(c) ==
  LET nextIndex == c.currentTrackIndex + 1
  IN IF nextIndex >= Len(c.playlist) THEN Len(c.playlist) - 1 ELSE nextIndex

NextIndex(c) ==
  LET nextIndex == c.currentTrackIndex + 1
  IN IF nextIndex >= Len(c.playlist)
     THEN (IF c.repeatMode = "all" THEN 0 ELSE Len(c.playlist) - 1)
     ELSE nextIndex

\* previousTrack's index
PrevIndex(c) ==
  LET prevIndex == c.currentTrackIndex - 1
  IN IF prevIndex < 0
     THEN (IF c.repeatMode = "all" THEN Len(c.playlist) - 1 ELSE 0)
     ELSE prevIndex

\* playlist[i] of a JS array: undefined outside the array
At(pl, i) == IF i >= 0 /\ i < Len(pl) THEN pl[i + 1] ELSE Undefined

----------------------------------------------------------------------------
(* loadTrack *)

Idle == loads = <<>> /\ page.mounted

\* the handlers a loadTrack registers are those of the render that created
\* it: the current loadTrack for a caller of the current render, its own
\* loadTrack for a closure that carries one
LoadTrackRender(w, c) == IF "lt" \in DOMAIN c THEN c.lt ELSE w.page.lt

\* a loadTrack that starts every track at the default volume
LoadTrackCallResetting(w, c, track) ==
  SetState(w, [w.state EXCEPT !.isLoading = TRUE, !.currentTrack = track,
                              !.externalSource = "none",
                              !.volume = DefaultVolume])

\* loadTrack(track) up to its await, called from a closure that captured c.
\* A track that is undefined makes track.src throw inside the try block.
LoadTrackCall(w, c, track) ==
  LET s1 == [w.state EXCEPT !.isLoading = TRUE, !.currentTrack = track,
                            !.externalSource = "none"]
      w1 == SetState(w, s1)
      pending == [track |-> track, volume |-> c.volume,
                  equalizerBands |-> c.equalizerBands, effects |-> c.effects,
                  render |-> LoadTrackRender(w, c)]
  IN IF ~IsTrack(track)
     THEN SetState(w1, [s1 EXCEPT !.isLoading = FALSE])
     ELSE IF ~w1.engine.isInitialized
     THEN [EngineInitialize(w1) EXCEPT
             !.loads = Append(@, pending @@ [phase |-> "initialize"])]
     ELSE [EngineLoadAudioBody(w1, track.src) EXCEPT
             !.loads = Append(@, pending @@ [phase |-> "loadAudio"])]

\* MediaSessionService.setupMediaSession(track, callbacks)
SetupMediaSession(w, callbacks) ==
  IF w.page.supported THEN [w EXCEPT !.page.handlers = callbacks] ELSE w

\* loadAudio resumes after `await this.initialize()`
LoadAudioResume(w) ==
  LET l == Head(w.loads)
      w1 == EngineLoadAudioBody([w EXCEPT !.loads = Tail(@)], l.track.src)
  IN [w1 EXCEPT !.loads = Append(@, [l EXCEPT !.phase = "loadAudio"])]

\* loadTrack resumes after `await loadAudio(track.src)`: volume, EQ, the
\* loadedmetadata listener on the engine's current element, isLoading
LoadTrackResume(w) ==
  LET l == Head(w.loads)
      w1 == EngineSetVolume([w EXCEPT !.loads = Tail(@)], l.volume)
      w2a == EngineSetAllEqualizerBands(w1, l.equalizerBands)
      w2b == EngineSetReverbSettings(w2a, l.effects.reverb)
      w2c == EngineSetCompressorSettings(w2b, l.effects.compressor)
      w2 == EngineSetDistortionAmount(w2c, l.effects.distortion.amount)
      w3 == IF HasAudio(w2)
            THEN [w2 EXCEPT !.engine.currentAudio.listeners = 1]
            ELSE w2
      w4 == SetupMediaSession(w3, [kind |-> "track", c |-> l.render])
  IN SetState(w4, [w4.state EXCEPT !.isLoading = FALSE])

----------------------------------------------------------------------------
(* YouTubeController: play, pause and seekTo command the player, when there *)
(* is one; state.playing follows the player's onStateChange events.         *)

YTPlay(w) == IF w.yt.player THEN [w EXCEPT !.yt.intent = TRUE] ELSE w
YTPause(w) == IF w.yt.player THEN [w EXCEPT !.yt.intent = FALSE] ELSE w
YTSeekTo(w, time) == IF w.yt.player THEN [w EXCEPT !.yt.currentTime = time] ELSE w

----------------------------------------------------------------------------
(* The provider's handlers, as functions of the world; c is the state the  *)
(* handler's closure captured.                                              *)

DoPlay(w, c) ==
  IF c.externalSource = "youtube"
  THEN LET w1 == YTPlay(w) IN SetState(w1, [w1.state EXCEPT !.isPlaying = TRUE])
  ELSE LET w1 == EnginePlay(w) IN SetState(w1, [w1.state EXCEPT !.isPlaying = TRUE])

DoPause(w, c) ==
  IF c.externalSource = "youtube"
  THEN LET w1 == YTPause(w) IN SetState(w1, [w1.state EXCEPT !.isPlaying = FALSE])
  ELSE LET w1 == EnginePause(w) IN SetState(w1, [w1.state EXCEPT !.isPlaying = FALSE])

\* a stop that pauses and does not rewind
StopWithoutRewind(w, c) ==
  LET w1 == EnginePause(w) IN SetState(w1, [w1.state EXCEPT !.isPlaying = FALSE])

DoStop(w, c) ==
  IF c.externalSource = "youtube"
  THEN LET w1 == YTSeekTo(YTPause(w), 0)
       IN SetState(w1, [w1.state EXCEPT !.isPlaying = FALSE, !.currentTime = 0])
  ELSE LET w1 == EngineStop(w)
       IN SetState(w1, [w1.state EXCEPT !.isPlaying = FALSE, !.currentTime = 0])

DoNextTrack(w, c) ==
  IF Len(c.playlist) = 0 THEN w
  ELSE LET nextIndex == NextIndex(c)
           w1 == SetState(w, [w.state EXCEPT !.currentTrackIndex = nextIndex])
       IN LoadTrackCall(w1, c, At(c.playlist, nextIndex))

\* a previousTrack without the test for the empty playlist
PreviousTrackUnguarded(w, c) ==
  LET prevIndex == PrevIndex(c)
      w1 == SetState(w, [w.state EXCEPT !.currentTrackIndex = prevIndex])
  IN LoadTrackCall(w1, c, At(c.playlist, prevIndex))

DoPreviousTrack(w, c) ==
  IF Len(c.playlist) = 0 THEN w
  ELSE LET prevIndex == PrevIndex(c)
           w1 == SetState(w, [w.state EXCEPT !.currentTrackIndex = prevIndex])
       IN LoadTrackCall(w1, c, At(c.playlist, prevIndex))

DoPlayTrackAtIndex(w, c, index) ==
  IF index >= 0 /\ index < Len(c.playlist)
  THEN LoadTrackCall(SetState(w, [w.state EXCEPT !.currentTrackIndex = index]),
                     c, At(c.playlist, index))
  ELSE w

\* a clearPlaylist that does not stop playback first
ClearWithoutStop(w, c) ==
  SetState(w, [w.state EXCEPT !.playlist = <<>>,
                              !.currentTrackIndex = 0 - 1,
                              !.currentTrack = NoTrack,
                              !.duration = 0,
                              !.currentTime = 0])

DoClearPlaylist(w, c) ==
  LET w1 == DoStop(w, c)
  IN SetState(w1, [w1.state EXCEPT !.playlist = <<>>,
                                   !.currentTrackIndex = 0 - 1,
                                   !.currentTrack = NoTrack,
                                   !.duration = 0,
                                   !.currentTime = 0])

NextRepeat(r) == IF r = "none" THEN "all" ELSE IF r = "all" THEN "one" ELSE "none"

\* an end of track on which repeat 'one' seeks without resuming
EndOfTrackSeekOnly(w, c) ==
  IF c.repeatMode = "one" THEN EngineSetCurrentTime(w, 0) ELSE w

\* an end of track without the last branch, the one that pauses
EndOfTrackNeverPauses(w, c) ==
  IF c.repeatMode = "one"
  THEN EnginePlay(EngineSetCurrentTime(w, 0))
  ELSE IF Len(c.playlist) > 0
  THEN LoadTrackCall(w, c, At(c.playlist, 0))
  ELSE w

\* the end-of-track branch of updateTime; c is the closure of updateTime
EndOfTrack(w, c) ==
  IF c.repeatMode = "one"
  THEN EnginePlay(EngineSetCurrentTime(w, 0))
  ELSE IF c.repeatMode = "all" \/ c.currentTrackIndex < Len(c.playlist) - 1
  THEN LET nextIndex == c.currentTrackIndex + 1
       IN IF nextIndex < Len(c.playlist)
          THEN LoadTrackCall(w, c, At(c.playlist, nextIndex))
          ELSE IF c.repeatMode = "all" /\ Len(c.playlist) > 0
          THEN LoadTrackCall(w, c, At(c.playlist, 0))
          ELSE w
  ELSE SetState(w, [w.state EXCEPT !.isPlaying = FALSE])

AtEnd(currentTime, duration) == duration > 0 /\ currentTime >= duration - EndEpsilon

\* updateTime, the frame callback
DoUpdateTime(w, c) ==
  IF c.externalSource = "youtube"
  THEN SetState(w, [w.state EXCEPT !.currentTime = w.yt.currentTime,
                                   !.duration = w.yt.duration,
                                   !.isPlaying = w.yt.playing])
  ELSE IF c.isPlaying
  THEN LET currentTime == EngineGetCurrentTime(w)
           duration == EngineGetDuration(w)
           w1 == SetState(w, [w.state EXCEPT
                   !.currentTime = currentTime,
                   !.duration = IF duration # 0 THEN duration ELSE @])
       IN IF AtEnd(currentTime, duration) THEN EndOfTrack(w1, c) ELSE w1
  ELSE w

\* the code path of updateTime, for the history variable
UpdateTimePath(w, c) ==
  IF c.externalSource = "youtube" THEN "youtube"
  ELSE IF ~c.isPlaying THEN "idle"
  ELSE IF ~AtEnd(EngineGetCurrentTime(w), EngineGetDuration(w)) THEN "progress"
  ELSE IF c.repeatMode = "one" THEN "repeatOne"
  ELSE IF c.repeatMode = "all" \/ c.currentTrackIndex < Len(c.playlist) - 1
  THEN (IF c.currentTrackIndex + 1 < Len(c.playlist) THEN "advance"
        ELSE IF c.repeatMode = "all" /\ Len(c.playlist) > 0 THEN "wrap"
        ELSE "nothing")
  ELSE "pause"

----------------------------------------------------------------------------
(* React: the commit that follows a handler.  updateTime is re-created     *)
(* when one of its dependencies changed; the polling effect then cancels   *)
(* the pending frame and requests one with the new closure if isPlaying.   *)

UtDeps(s) == <<s.isPlaying, s.repeatMode, s.currentTrackIndex,
               Len(s.playlist), s.externalSource>>

\* what updateTime reads: its dependencies are current, the rest is captured
UtClosure == [lt |-> page.utlt] @@
             [state EXCEPT !.playlist = ut.playlist, !.volume = ut.volume,
                           !.equalizerBands = ut.equalizerBands,
                           !.effects = ut.effects]

\* the dependencies of loadTrack
LtDeps(s) == <<s.volume, s.equalizerBands, s.effects, s.currentTime, s.duration>>

\* animationFrameRef: ref is whether the callback it names is pending, strays
\* counts the pending callbacks it no longer names
CancelFrame(fr) == [fr EXCEPT !.ref = FALSE]

RequestFrame(fr) ==
  [ref |-> TRUE, strays |-> fr.strays + (IF fr.ref THEN 1 ELSE 0)]

\* a polling effect whose cleanup cancels nothing
PollingEffectNoCleanup(fr, isPlaying) ==
  IF isPlaying THEN RequestFrame(fr) ELSE CancelFrame(fr)

\* the polling effect re-runs: the cleanup of the previous run, then its body
PollingEffect(fr, isPlaying) ==
  LET cleaned == CancelFrame(fr)
  IN IF isPlaying THEN RequestFrame(cleaned) ELSE CancelFrame(cleaned)

Commit(w, resched, o) ==
  /\ state' = w.state
  /\ engine' = w.engine
  /\ stale' = w.stale
  /\ loads' = w.loads
  /\ yt' = w.yt
  /\ LET changed == UtDeps(w.state) # UtDeps(state)
         lt == IF w.page.supported /\ LtDeps(w.state) # LtDeps(state)
               THEN RenderOf(w.state) ELSE w.page.lt
         fr0 == [ref |-> resched, strays |-> w.page.strays]
         fr == IF changed THEN PollingEffect(fr0, w.state.isPlaying) ELSE fr0
     IN /\ ut' = IF changed THEN Closure(w.state) ELSE ut
        /\ frame' = fr.ref
        /\ page' = [w.page EXCEPT !.lt = lt,
                                  !.utlt = IF changed THEN lt ELSE @,
                                  !.strays = fr.strays]
  /\ op' = o

Op(name, path, args) == [name |-> name, path |-> path, args |-> args]

\* a handler may replace an element that is still to fire only under MaxStale
LoadsWithin(w) == w.stale <= MaxStale

----------------------------------------------------------------------------
(* Caller operations *)

LoadTrack(track) ==
  /\ Idle
  /\ LET w == LoadTrackCall(World, state, track)
     IN /\ LoadsWithin(w)
        /\ Commit(w, frame, Op("loadTrack", "", <<>>))
  /\ UNCHANGED ytLoads

\* loadTrack(first) and loadTrack(second) called in one task, by callbacks of
\* the same render: the second call runs before any continuation of the first
LoadTrackTwice(first, second) ==
  /\ Idle
  /\ LET w1 == LoadTrackCall(World, state, first)
         w == LoadTrackCall(w1, state, second)
     IN /\ LoadsWithin(w)
        /\ Commit(w, frame, Op("loadTrack", "twice", <<first, second>>))
  /\ UNCHANGED ytLoads

Play ==
  /\ Idle
  /\ Commit(DoPlay(World, state), frame, Op("play", "", <<>>))
  /\ UNCHANGED ytLoads

Pause ==
  /\ Idle
  /\ Commit(DoPause(World, state), frame, Op("pause", "", <<>>))
  /\ UNCHANGED ytLoads

Stop ==
  /\ Idle
  /\ Commit(DoStop(World, state), frame, Op("stop", "", <<>>))
  /\ UNCHANGED ytLoads

\* the code path of nextTrack, for the history variable
NextTrackPath(c) ==
  IF Len(c.playlist) = 0 THEN "empty"
  ELSE IF c.currentTrackIndex + 1 < Len(c.playlist) THEN "advance"
  ELSE IF c.currentTrackIndex + 1 > Len(c.playlist) THEN "beyond"
  ELSE IF c.repeatMode = "all" THEN "wrap" ELSE "clamp"

NextTrack ==
  /\ Idle
  /\ LET w == DoNextTrack(World, state)
     IN /\ LoadsWithin(w)
        /\ Commit(w, frame,
                  Op("nextTrack", NextTrackPath(state), <<>>))
  /\ UNCHANGED ytLoads

PreviousTrack ==
  /\ Idle
  /\ LET w == DoPreviousTrack(World, state)
     IN /\ LoadsWithin(w)
        /\ Commit(w, frame,
                  Op("previousTrack",
                     IF Len(state.playlist) = 0 THEN "empty"
                     ELSE IF state.currentTrackIndex - 1 >= 0 THEN "retreat"
                     ELSE IF state.repeatMode = "all" THEN "wrap" ELSE "clamp",
                     <<>>))
  /\ UNCHANGED ytLoads

PlayTrackAtIndex(index) ==
  /\ Idle
  /\ LET w == DoPlayTrackAtIndex(World, state, index)
     IN /\ LoadsWithin(w)
        /\ Commit(w, frame,
                  Op("playTrackAtIndex",
                     IF index >= 0 /\ index < Len(state.playlist) THEN "load" ELSE "ignored",
                     <<>>))
  /\ UNCHANGED ytLoads

ClearPlaylist ==
  /\ Idle
  /\ Commit(DoClearPlaylist(World, state), frame,
            Op("clearPlaylist", IF state.isPlaying THEN "playing" ELSE "idle", <<>>))
  /\ UNCHANGED ytLoads

ToggleRepeat ==
  /\ Idle
  /\ Commit(SetState(World, [state EXCEPT !.repeatMode = NextRepeat(@)]), frame,
            Op("toggleRepeat", "", <<>>))
  /\ UNCHANGED ytLoads

ToggleShuffle ==
  /\ Idle
  /\ Commit(SetState(World, [state EXCEPT !.isShuffled = ~@]), frame,
            Op("toggleShuffle", "", <<>>))
  /\ UNCHANGED ytLoads

\* addToPlaylist: the updater reads t.id of every entry
AddTrack(track, now) ==
  /\ Idle
  /\ Len(state.playlist) < MaxPlaylist
  /\ \A i \in 1..Len(state.playlist) : IsTrack(state.playlist[i])
  /\ Commit(SetState(World, [state EXCEPT !.playlist = AddToPlaylist(@, track, now)]),
            frame, Op("addToPlaylist", "", <<track, now>>))
  /\ UNCHANGED ytLoads

RemoveTrack(trackId) ==
  /\ Idle
  /\ \A i \in 1..Len(state.playlist) : IsTrack(state.playlist[i])
  /\ Commit(SetState(World, [state EXCEPT !.playlist = RemoveFromPlaylist(@, trackId)]),
            frame, Op("removeFromPlaylist", "", <<>>))
  /\ UNCHANGED ytLoads

\* addToPlaylist or removeFromPlaylist over a playlist that holds an undefined
\* entry: the updater throws a TypeError on t.id and the state is not updated
UpdaterThrows(name) ==
  /\ Idle
  /\ \E i \in 1..Len(state.playlist) : ~IsTrack(state.playlist[i])
  /\ Commit(World, frame, Op(name, "TypeError", <<>>))
  /\ UNCHANGED ytLoads

Reorder(fromIndex, toIndex) ==
  /\ Idle
  /\ LET pl == ReorderPlaylist(state.playlist, fromIndex, toIndex)
     IN /\ Len(pl) <= MaxPlaylist
        /\ Commit(SetState(World, [state EXCEPT !.playlist = pl]), frame,
                  Op("reorderPlaylist", "", <<>>))
  /\ UNCHANGED ytLoads

\* seekTo(time)
DoSeekTo(w, c, time) ==
  IF c.externalSource = "youtube"
  THEN LET w1 == YTSeekTo(w, time)
       IN SetState(w1, [w1.state EXCEPT !.currentTime = time])
  ELSE LET w1 == EngineSetCurrentTime(w, time)
       IN SetState(w1, [w1.state EXCEPT !.currentTime = time])

\* a seek asks for no time later than MaxTime
SeeksWithin(w) == w.state.currentTime <= MaxTime /\ w.yt.currentTime <= MaxTime

SeekTo(time) ==
  /\ Idle
  /\ LET w == DoSeekTo(World, state, time)
     IN /\ SeeksWithin(w)
        /\ Commit(w, frame, Op("seekTo", state.externalSource, <<time>>))
  /\ UNCHANGED ytLoads

\* setVolume: the engine clamps what it puts into the gain node
DoSetVolume(w, c, volume) ==
  IF c.externalSource = "youtube"
  THEN LET w1 == IF w.yt.player THEN [w EXCEPT !.yt.volume = volume] ELSE w
       IN SetState(w1, [w1.state EXCEPT !.volume = volume])
  ELSE LET w1 == EngineSetVolume(w, volume)
       IN SetState(w1, [w1.state EXCEPT !.volume = volume])

SetVolume(volume) ==
  /\ Idle
  /\ Commit(DoSetVolume(World, state, volume), frame,
            Op("setVolume", state.externalSource, <<volume>>))
  /\ UNCHANGED ytLoads

\* the gain setEqualizerBand stores
StoredBandGain(gain) == gain

\* a setEqualizerBand that assigns bands[index] = gain: an index at the
\* length grows the array
SetBandByAssignment(w, index, gain) ==
  SetState(w, [w.state EXCEPT !.equalizerBands =
     IF index = Len(@) THEN Append(@, gain)
     ELSE [i \in 1..Len(@) |-> IF i - 1 = index THEN gain ELSE @[i]]])

\* setEqualizerBand(index, gain): map((band, i) => i === index ? gain : band)
DoSetEqualizerBand(w, index, gain) ==
  LET w1 == EngineSetEqualizerBand(w, index, gain)
  IN SetState(w1, [w1.state EXCEPT !.equalizerBands =
        [i \in 1..Len(@) |-> IF i - 1 = index THEN StoredBandGain(gain) ELSE @[i]]])

SetEqualizerBand(index, gain) ==
  /\ Idle
  /\ Commit(DoSetEqualizerBand(World, index, gain), frame,
            Op("setEqualizerBand", "", <<index, gain>>))
  /\ UNCHANGED ytLoads

equalizerPresets ==
  ("flat" :> <<0, 0, 0, 0, 0, 0, 0, 0, 0, 0>>) @@
  ("rock" :> <<3, 2, 0 - 1, 0 - 2, 0 - 1, 1, 3, 4, 4, 3>>) @@
  ("pop" :> <<1, 2, 3, 2, 0, 0 - 1, 0 - 1, 1, 2, 3>>) @@
  ("jazz" :> <<2, 1, 0, 1, 2, 2, 1, 0, 1, 2>>) @@
  ("classical" :> <<3, 2, 0, 0, 0, 0, 0 - 1, 0 - 1, 0 - 1, 0 - 2>>) @@
  ("electronic" :> <<4, 3, 1, 0, 0 - 1, 1, 2, 3, 4, 4>>) @@
  ("bass-boost" :> <<6, 4, 2, 1, 0, 0, 0, 0, 0, 0>>) @@
  ("vocal-enhance" :> <<0, 0, 0, 2, 4, 4, 2, 1, 0, 0>>)

PresetKeys == DOMAIN equalizerPresets

\* the property names an object literal inherits from Object.prototype
ObjectPrototypeKeys ==
  {"constructor", "hasOwnProperty", "isPrototypeOf", "propertyIsEnumerable",
   "toLocaleString", "toString", "valueOf", "__proto__"}

\* `preset in equalizerPresets`: the in operator also finds inherited names
IsPreset(preset) == preset \in PresetKeys \cup ObjectPrototypeKeys

\* An inherited name passes the test; equalizerPresets[preset] is then not an
\* array, gains.forEach throws a TypeError inside setAllEqualizerBands and
\* setState is not reached.
SetEqualizerPresetPath(preset) ==
  IF ~IsPreset(preset) THEN "ignored"
  ELSE IF preset \in PresetKeys THEN "applied"
  ELSE "TypeError"

DoSetEqualizerPreset(w, preset) ==
  IF SetEqualizerPresetPath(preset) = "applied"
  THEN LET gains == equalizerPresets[preset]
           w1 == EngineSetAllEqualizerBands(w, gains)
       IN SetState(w1, [w1.state EXCEPT !.equalizerBands = gains])
  ELSE w

SetEqualizerPreset(preset) ==
  /\ Idle
  /\ Commit(DoSetEqualizerPreset(World, preset), frame,
            Op("setEqualizerPreset", SetEqualizerPresetPath(preset), <<preset>>))
  /\ UNCHANGED ytLoads

Modes == {"normal", "vocal-enhance", "instrument-focus", "bass-boost"}

ModeEQ(mode) ==
  IF mode = "vocal-enhance" THEN equalizerPresets["vocal-enhance"]
  ELSE IF mode = "instrument-focus" THEN <<0, 0, 0 - 2, 0 - 1, 0, 1, 2, 3, 2, 1>>
  ELSE IF mode = "bass-boost" THEN equalizerPresets["bass-boost"]
  ELSE equalizerPresets["flat"]

\* a band loop that sets nothing
SkipBands(w, gains, i) == w

RECURSIVE SetBandsFrom(_, _, _)
SetBandsFrom(w, gains, i) ==
  IF i > Len(gains) THEN w
  ELSE SetBandsFrom(DoSetEqualizerBand(w, i - 1, gains[i]), gains, i + 1)

\* a setMode that also restores the initial effects
SetModeResettingEffects(w, mode) ==
  SetState(w, [w.state EXCEPT !.mode = mode, !.effects = initialEffects])

\* setMode: the mode, setEqualizerPreset('custom'), then every band of the table
DoSetMode(w, mode) ==
  LET w1 == SetState(w, [w.state EXCEPT !.mode = mode])
      w2 == DoSetEqualizerPreset(w1, "custom")
  IN SetBandsFrom(w2, ModeEQ(mode), 1)

SetMode(mode) ==
  /\ Idle
  /\ Commit(DoSetMode(World, mode), frame,
            Op("setMode",
               IF \E m \in Modes : state.equalizerBands = ModeEQ(m)
               THEN "table" ELSE "edited",
               <<mode>>))
  /\ UNCHANGED ytLoads

----------------------------------------------------------------------------
(* updateEffects(newEffects): newEffects holds some of the groups *)

DoUpdateEffects(w, c, newEffects) ==
  LET updatedEffects == [g \in EffectGroups |->
                           IF g \in DOMAIN newEffects THEN newEffects[g]
                           ELSE c.effects[g]]
      w1 == SetState(w, [w.state EXCEPT !.effects = updatedEffects])
      w2 == IF "reverb" \in DOMAIN newEffects
            THEN EngineSetReverbSettings(w1, updatedEffects.reverb) ELSE w1
      w3 == IF "compressor" \in DOMAIN newEffects
            THEN EngineSetCompressorSettings(w2, updatedEffects.compressor) ELSE w2
  IN IF "distortion" \in DOMAIN newEffects
     THEN EngineSetDistortionAmount(w3, updatedEffects.distortion.amount) ELSE w3

\* what EffectsPanel passes for one slider: the group, with the value moved
GroupUpdate(group, value) ==
  IF group = "reverb" THEN [reverb |-> [roomSize |-> value]]
  ELSE IF group = "chorus" THEN [chorus |-> [rate |-> value]]
  ELSE IF group = "distortion" THEN [distortion |-> [amount |-> value]]
  ELSE [compressor |-> [threshold |-> value]]

\* one updateEffects call in a task
UpdateEffects(group, value) ==
  /\ Idle
  /\ Commit(DoUpdateEffects(World, state, GroupUpdate(group, value)), frame,
            Op("updateEffects", "once", <<group, value>>))
  /\ UNCHANGED ytLoads

\* two updateEffects calls in one task, for two groups: both are the callback
\* of the same render and read the same state.effects
UpdateEffectsTwice(group1, value1, group2, value2) ==
  /\ Idle
  /\ group1 # group2
  /\ LET w1 == DoUpdateEffects(World, state, GroupUpdate(group1, value1))
     IN Commit(DoUpdateEffects(w1, state, GroupUpdate(group2, value2)), frame,
               Op("updateEffects", "twice", <<group1, value1, group2, value2>>))
  /\ UNCHANGED ytLoads

----------------------------------------------------------------------------
(* loadYouTube: YouTubeController.load completes, or fails, in a later task *)

LoadYouTube ==
  /\ Idle
  /\ ytLoads < MaxYtLoads
  /\ ytLoads' = ytLoads + 1
  /\ Commit(SetState(World, [state EXCEPT !.isLoading = TRUE]), frame,
            Op("loadYouTube", "", <<>>))

\* ensurePlayer: a new player is created paused (autoplay: 0); an existing
\* player gets loadVideoById, which starts the new video
YTLoaded(w) ==
  [w EXCEPT !.yt.intent = w.yt.player,
            !.yt.player = TRUE,
            !.yt.currentTime = 0,
            !.yt.duration = MediaLen]

LoadYouTubeResume(url, now) ==
  /\ Idle
  /\ ytLoads > 0
  /\ ytLoads' = ytLoads - 1
  /\ LET w == YTLoaded(World)
         track == [id |-> "yt-" \o ToString(now), src |-> url]
         w1 == SetState(w, [w.state EXCEPT !.currentTrack = track,
                                           !.externalSource = "youtube",
                                           !.isLoading = FALSE])
     IN Commit(SetupMediaSession(w1, [kind |-> "youtube"]),
               frame, Op("loadYouTube.resume", "loaded", <<>>))

LoadYouTubeFail ==
  /\ Idle
  /\ ytLoads > 0
  /\ ytLoads' = ytLoads - 1
  /\ Commit(SetState(World, [state EXCEPT !.isLoading = FALSE]), frame,
            Op("loadYouTube.resume", "failed", <<>>))

\* onYouTubeIframeAPIReady is never called: the script did not load (loadAPI
\* sets no onerror) or a later loadAPI call replaced the callback.  The
\* promise is never settled and this loadYouTube call never resumes.
LoadYouTubeHangs ==
  /\ Idle
  /\ ytLoads > 0
  /\ ~yt.player
  /\ ytLoads' = ytLoads - 1
  /\ Commit(World, frame, Op("loadYouTube.hang", "", <<>>))

\* onStateChange
YTStateChange ==
  /\ Idle
  /\ yt.player /\ yt.playing # yt.intent
  /\ Commit([World EXCEPT !.yt.playing = yt.intent], frame,
            Op("yt.onStateChange", "", <<>>))
  /\ UNCHANGED ytLoads

\* the video plays on; at its end the player stops
YTAdvance ==
  /\ Idle
  /\ yt.player /\ yt.intent /\ yt.currentTime < yt.duration
  /\ Commit([World EXCEPT !.yt.currentTime = @ + 1,
                          !.yt.intent = (yt.currentTime + 1 < yt.duration)],
            frame, Op("yt.advance", "", <<>>))
  /\ UNCHANGED ytLoads

----------------------------------------------------------------------------
(* Continuations, events and the frame callback *)

\* the oldest pending continuation of a loadTrack call runs
ResumeLoad ==
  /\ loads # <<>>
  /\ IF Head(loads).phase = "initialize"
     THEN Commit(LoadAudioResume(World), frame, Op("loadAudio.resume", "", <<>>))
     ELSE Commit(LoadTrackResume(World), frame, Op("loadTrack.resume", "", <<>>))
  /\ UNCHANGED ytLoads

\* 'loadedmetadata' of the current element: its duration is known; the
\* provider's listener, when attached, copies it and clears isLoading
AudioMetadata ==
  /\ Idle
  /\ HasAudio(World) /\ engine.currentAudio.duration = 0
  /\ ~engine.currentAudio.error
  /\ LET w == [World EXCEPT !.engine.currentAudio.duration = MediaLen,
                            !.engine.currentAudio.currentTime =
                               Max(0, Min(MediaLen, @))]
     IN Commit(IF engine.currentAudio.listeners > 0
               THEN SetState(w, [w.state EXCEPT !.duration = MediaLen,
                                                !.isLoading = FALSE])
               ELSE w,
               frame, Op("loadedmetadata", "current", <<>>))
  /\ UNCHANGED ytLoads

\* the source of the current element cannot be fetched or decoded: the
\* element fires 'error', which nothing listens to
AudioError ==
  /\ Idle
  /\ HasAudio(World) /\ engine.currentAudio.duration = 0
  /\ ~engine.currentAudio.error
  /\ Commit([World EXCEPT !.engine.currentAudio.error = TRUE], frame,
            Op("audio.error", "", <<>>))
  /\ UNCHANGED ytLoads

\* 'loadedmetadata' of a replaced element that carries the listener
StaleMetadata ==
  /\ Idle
  /\ stale > 0
  /\ Commit([World EXCEPT !.stale = @ - 1,
                          !.state.duration = MediaLen,
                          !.state.isLoading = FALSE],
            frame, Op("loadedmetadata", "replaced", <<>>))
  /\ UNCHANGED ytLoads

\* the current element plays on; at the end of the medium the browser pauses it
AudioAdvance ==
  /\ Idle
  /\ HasAudio(World)
  /\ ~engine.currentAudio.paused /\ engine.currentAudio.duration > 0
  /\ engine.currentAudio.currentTime < engine.currentAudio.duration
  /\ Commit([World EXCEPT !.engine.currentAudio.currentTime = @ + 1,
                          !.engine.currentAudio.paused =
                             (engine.currentAudio.currentTime + 1 >= engine.currentAudio.duration)],
            frame, Op("audio.advance", "", <<>>))
  /\ UNCHANGED ytLoads

UpdateTime ==
  /\ Idle
  /\ frame
  /\ LET c == UtClosure
         w == DoUpdateTime(World, c)
     IN /\ LoadsWithin(w)
        /\ Commit(w, c.isPlaying \/ c.externalSource = "youtube",
                  Op("updateTime", UpdateTimePath(World, c), <<>>))
  /\ UNCHANGED ytLoads

----------------------------------------------------------------------------
(* The media session's action handlers.  loadTrack registers play, pause,   *)
(* nextTrack, previousTrack and an onSeek of the render that created it (c, *)
(* whose loadTrack is that same loadTrack); loadYouTube registers calls of  *)
(* the YouTubeController.                                                    *)

\* the state a registered callback reads, with the loadTrack it calls
HandlerClosure(c) == [lt |-> c] @@ c

\* onSeek(time) of loadTrack
OnSeek(w, c, time) ==
  IF time < 0 THEN DoSeekTo(w, c, Max(0, c.currentTime + time))
  ELSE IF time > c.duration THEN DoSeekTo(w, c, time)
  ELSE DoSeekTo(w, c, IF time > c.currentTime + SeekJump THEN time
                      ELSE c.currentTime + time)

\* details.seekOffset || 10
DefaultSkip == 100
SkipTime(seekOffset) == IF seekOffset = 0 THEN DefaultSkip ELSE seekOffset

Registered == page.handlers # NoHandlers
FromTrack == page.handlers.kind = "track"

MediaAction(w, name, args) ==
  /\ Idle
  /\ Registered
  /\ LoadsWithin(w)
  /\ SeeksWithin(w)
  /\ Commit(w, frame, Op(name, page.handlers.kind, args))
  /\ UNCHANGED ytLoads

MediaPlay ==
  MediaAction(IF FromTrack THEN DoPlay(World, page.handlers.c) ELSE YTPlay(World),
              "media.play", <<>>)

MediaPause ==
  MediaAction(IF FromTrack THEN DoPause(World, page.handlers.c) ELSE YTPause(World),
              "media.pause", <<>>)

MediaNextTrack ==
  MediaAction(IF FromTrack THEN DoNextTrack(World, HandlerClosure(page.handlers.c))
              ELSE World,
              "media.nexttrack", <<>>)

MediaPreviousTrack ==
  MediaAction(IF FromTrack THEN DoPreviousTrack(World, HandlerClosure(page.handlers.c))
              ELSE World,
              "media.previoustrack", <<>>)

\* 'seekto' with details.seekTime
MediaSeekTo(seekTime) ==
  MediaAction(IF FromTrack THEN OnSeek(World, page.handlers.c, seekTime)
              ELSE YTSeekTo(World, seekTime),
              "media.seekto", <<seekTime>>)

MediaSeekForward(seekOffset) ==
  MediaAction(IF FromTrack THEN OnSeek(World, page.handlers.c, SkipTime(seekOffset))
              ELSE YTSeekTo(World, SkipTime(seekOffset)),
              "media.seekforward", <<seekOffset>>)

MediaSeekBackward(seekOffset) ==
  MediaAction(IF FromTrack THEN OnSeek(World, page.handlers.c, 0 - SkipTime(seekOffset))
              ELSE YTSeekTo(World, 0 - SkipTime(seekOffset)),
              "media.seekbackward", <<seekOffset>>)

\* pause() or stop() called outside a React event: the frame callback that is
\* pending runs, with the closure of the render before, after the handler and
\* before React commits and runs the cleanup of the polling effect
RacedTick(name) ==
  /\ Idle
  /\ frame
  /\ LET w1 == IF name = "pause" THEN DoPause(World, state) ELSE DoStop(World, state)
         c == UtClosure
         w == DoUpdateTime(w1, c)
     IN /\ LoadsWithin(w)
        /\ Commit(w, c.isPlaying \/ c.externalSource = "youtube",
                  Op(name, "tick before commit", <<>>))
  /\ UNCHANGED ytLoads

----------------------------------------------------------------------------
(* The provider unmounts; dispose() *)

\* the cleanups of the provider's effects: the engine effect disposes the
\* engine and cancels animationFrameRef, the polling effect cancels it again;
\* no handler of the provider runs afterwards
Unmount ==
  /\ Idle
  /\ LET w == [EngineDispose(World) EXCEPT !.page.mounted = FALSE]
         fr == CancelFrame(CancelFrame([ref |-> frame, strays |-> page.strays]))
     IN Commit(w, fr.ref, Op("unmount", DisposePath(World), <<>>))
  /\ UNCHANGED ytLoads

\* a further dispose() of the engine the cleanup has disposed
Dispose ==
  /\ loads = <<>>
  /\ ~page.mounted
  /\ Commit(EngineDispose(World), frame, Op("dispose", DisposePath(World), <<>>))
  /\ UNCHANGED ytLoads

----------------------------------------------------------------------------
(* Inputs *)

TrackA == [id |-> "a", src |-> "a.mp3"]
TrackB == [id |-> "b", src |-> "b.mp3"]

SessionTracks == {TrackA, TrackB}
NowValues == {1000}

\* the indices PlaylistPanel's handleDragEnd passes: findIndex results
DragIndices == (0 - 1)..(Len(state.playlist) - 1)

----------------------------------------------------------------------------
(* The playback session: playlist, transport, loads and the frame callback *)

TrackSuffixed == [id |-> "a-2", src |-> "c.mp3"]
TrackNoId == [id |-> "", src |-> "d.mp3"]

PlaylistTracks == {TrackA, TrackSuffixed, TrackNoId}

\* the integers reorderPlaylist is given: inside and outside the playlist
ReorderIndices == {0 - 1, 0, 1, 5}

VolumeInputs == {0 - 100, 40, 500}
BandInputs == {0, NumBands}
GainInputs == {5, 13}
PresetInputs == {"rock", "custom", "toString"}
ModeBandInputs == {0 - 1, 0, NumBands}
EffectInputs == {10, 60}

\* what the browser, React and the microtask queue do on their own
\* a track whose id no playlist entry has
Fresh(track) ==
  \A i \in 1..Len(state.playlist) :
    IsTrack(state.playlist[i]) => state.playlist[i].id # track.id

EngineEnvironment ==
  \/ ResumeLoad
  \/ AudioMetadata
  \/ StaleMetadata
  \/ AudioAdvance
  \/ UpdateTime

YouTubeEnvironment ==
  \/ \E now \in NowValues : LoadYouTubeResume("https://youtu.be/v", now)
  \/ LoadYouTubeFail
  \/ YTStateChange
  \/ YTAdvance

\* playback on the engine: transport, loads and frames over a playlist of
\* distinct tracks
NextPlayback ==
  \/ \E track \in SessionTracks : LoadTrack(track)
  \/ Play
  \/ Pause
  \/ Stop
  \/ NextTrack
  \/ PreviousTrack
  \/ \E index \in (0 - 1)..MaxPlaylist : PlayTrackAtIndex(index)
  \/ ClearPlaylist
  \/ ToggleRepeat
  \/ \E track \in SessionTracks, now \in NowValues :
       Fresh(track) /\ AddTrack(track, now)
  \/ \E i \in 1..Len(state.playlist) :
       IsTrack(state.playlist[i]) /\ RemoveTrack(state.playlist[i].id)
  \/ (state.playlist # <<>> /\ \E f \in DragIndices, t \in DragIndices : Reorder(f, t))
  \/ EngineEnvironment

SpecPlayback == Init /\ [][NextPlayback]_vars

\* editing the playlist
NextPlaylist ==
  \/ \E track \in PlaylistTracks, now \in NowValues : AddTrack(track, now)
  \/ \E i \in 1..Len(state.playlist) :
       IsTrack(state.playlist[i]) /\ RemoveTrack(state.playlist[i].id)
  \/ \E f \in ReorderIndices, t \in ReorderIndices : Reorder(f, t)
  \/ ClearPlaylist
  \/ UpdaterThrows("addToPlaylist")
  \/ UpdaterThrows("removeFromPlaylist")

SpecPlaylist == Init /\ [][NextPlaylist]_vars

\* the parameter store: volume, equalizer, mode, on either backend
NextParams ==
  \/ \E volume \in VolumeInputs : SetVolume(volume)
  \/ \E index \in BandInputs, gain \in GainInputs : SetEqualizerBand(index, gain)
  \/ \E preset \in PresetInputs : SetEqualizerPreset(preset)
  \/ LoadTrack(TrackA)
  \/ ResumeLoad
  \/ LoadYouTube
  \/ \E now \in NowValues : LoadYouTubeResume("https://youtu.be/v", now)

SpecParams == Init /\ [][NextParams]_vars

\* both backends: the engine and the YouTube player
NextBackends ==
  \/ LoadTrack(TrackA)
  \/ LoadYouTube
  \/ Play
  \/ Pause
  \/ Stop
  \/ \E now \in NowValues :
       Fresh(TrackA) /\ AddTrack(TrackA, now)
  \/ NextTrack
  \/ ClearPlaylist
  \/ EngineEnvironment
  \/ YouTubeEnvironment

SpecBackends == Init /\ [][NextBackends]_vars

\* loads on either source, their continuations and their failures
NextLoads ==
  \/ \E track \in SessionTracks : LoadTrack(track)
  \/ Play
  \/ ResumeLoad
  \/ AudioMetadata
  \/ StaleMetadata
  \/ AudioError
  \/ LoadYouTube
  \/ \E now \in NowValues : LoadYouTubeResume("https://youtu.be/v", now)
  \/ LoadYouTubeFail
  \/ LoadYouTubeHangs

SpecLoads == Init /\ [][NextLoads]_vars

\* the effects panel
NextEffects ==
  \/ \E group \in EffectGroups, value \in EffectInputs : UpdateEffects(group, value)
  \/ \E group1 \in EffectGroups, group2 \in EffectGroups, value \in EffectInputs :
       UpdateEffectsTwice(group1, value, group2, value)
  \/ LoadTrack(TrackA)
  \/ ResumeLoad

SpecEffects == Init /\ [][NextEffects]_vars

\* parameters changed during playback, and the loads that follow
NextReapply ==
  \/ LoadTrack(TrackA)
  \/ \E now \in NowValues : Fresh(TrackA) /\ AddTrack(TrackA, now)
  \/ Play
  \/ SetVolume(40)
  \/ SetEqualizerBand(0, 5)
  \/ EngineEnvironment

SpecReapply == Init /\ [][NextReapply]_vars

\* modes, presets and bands
NextMode ==
  \/ \E mode \in Modes : SetMode(mode)
  \/ \E index \in ModeBandInputs, gain \in GainInputs : SetEqualizerBand(index, gain)
  \/ \E preset \in PresetInputs : SetEqualizerPreset(preset)
  \/ LoadTrack(TrackA)
  \/ ResumeLoad

SpecMode == Init /\ [][NextMode]_vars

\* the life of one engine, to its disposal
NextEngine ==
  \/ \E track \in SessionTracks : LoadTrack(track)
  \/ Play
  \/ Pause
  \/ ResumeLoad
  \/ AudioMetadata
  \/ AudioAdvance
  \/ UpdateTime
  \/ Unmount
  \/ Dispose

SpecEngine == Init /\ [][NextEngine]_vars

\* the polling of the position while a track plays, to the unmount
NextPolling ==
  \/ LoadTrack(TrackA)
  \/ \E now \in NowValues : Fresh(TrackA) /\ AddTrack(TrackA, now)
  \/ Play
  \/ Pause
  \/ Stop
  \/ ToggleRepeat
  \/ RacedTick("pause")
  \/ RacedTick("stop")
  \/ EngineEnvironment
  \/ Unmount

SpecPolling == Init /\ [][NextPolling]_vars

\* the times asked of seekTo and of the media session
SeekTimes == {0 - 1, MaxTime}
MediaSeekTimes == {1, MediaLen}
SkipOffsets == {1}

\* the media session's commands, in a browser that has the API
NextMedia ==
  \/ LoadTrack(TrackA)
  \/ \E now \in NowValues : Fresh(TrackA) /\ AddTrack(TrackA, now)
  \/ \E time \in SeekTimes : SeekTo(time)
  \/ MediaPlay
  \/ MediaPause
  \/ MediaNextTrack
  \/ MediaPreviousTrack
  \/ \E seekTime \in MediaSeekTimes : MediaSeekTo(seekTime)
  \/ \E seekOffset \in SkipOffsets : MediaSeekForward(seekOffset)
  \/ \E seekOffset \in SkipOffsets : MediaSeekBackward(seekOffset)
  \/ ResumeLoad
  \/ AudioMetadata

SpecMedia == InitMediaSession /\ [][NextMedia]_vars

\* walking a playlist that is edited meanwhile
NavTracks == SessionTracks \cup {TrackSuffixed}

NextNav ==
  \/ \E track \in NavTracks, now \in NowValues : Fresh(track) /\ AddTrack(track, now)
  \/ \E i \in 1..Len(state.playlist) :
       IsTrack(state.playlist[i]) /\ RemoveTrack(state.playlist[i].id)
  \/ NextTrack
  \/ PreviousTrack
  \/ ToggleRepeat
  \/ ResumeLoad

SpecNav == Init /\ [][NextNav]_vars

\* additions and removals, with ids that are taken, suffixed or empty
NextQueue ==
  \/ \E track \in PlaylistTracks, now \in NowValues : AddTrack(track, now)
  \/ \E i \in 1..Len(state.playlist) : RemoveTrack(state.playlist[i].id)

SpecQueue == Init /\ [][NextQueue]_vars

\* the engine's nodes under loads and every setter
NextGraph ==
  \/ \E track \in SessionTracks : LoadTrack(track)
  \/ ResumeLoad
  \/ SetVolume(40)
  \/ \E index \in BandInputs : SetEqualizerBand(index, 5)
  \/ SetEqualizerPreset("rock")
  \/ SetMode("bass-boost")
  \/ \E group \in EffectGroups : UpdateEffects(group, 10)
  \/ Unmount

SpecGraph == Init /\ [][NextGraph]_vars

\* loads that overlap
NextOverlap ==
  \/ \E track \in SessionTracks : LoadTrack(track)
  \/ \E first \in SessionTracks, second \in SessionTracks :
       first # second /\ LoadTrackTwice(first, second)
  \/ ResumeLoad
  \/ AudioMetadata
  \/ Play
  \/ Pause

SpecOverlap == Init /\ [][NextOverlap]_vars

\* the parameter store across track changes
\* (the parameters are set before the first track is loaded)
NextSettings ==
  \/ state.currentTrack = NoTrack /\ SetVolume(40)
  \/ state.currentTrack = NoTrack /\ SetMode("bass-boost")
  \/ state.currentTrack = NoTrack /\ UpdateEffects("reverb", 10)
  \/ state.currentTrack = NoTrack /\ ToggleRepeat
  \/ state.currentTrack = NoTrack /\ ToggleShuffle
  \/ \E track \in SessionTracks, now \in NowValues : Fresh(track) /\ AddTrack(track, now)
  \/ LoadTrack(TrackA)
  \/ NextTrack
  \/ PreviousTrack
  \/ PlayTrackAtIndex(0)
  \/ Play
  \/ ResumeLoad
  \/ AudioMetadata
  \/ AudioAdvance
  \/ UpdateTime

SpecSettings == Init /\ [][NextSettings]_vars

\* the modes over a session that has parameters, a playlist and a transport
NextModes ==
  \/ \E mode \in Modes : SetMode(mode)
  \/ SetEqualizerBand(0, 5)
  \/ SetVolume(40)
  \/ UpdateEffects("compressor", 0 - 10)
  \/ \E now \in NowValues : Fresh(TrackA) /\ AddTrack(TrackA, now)
  \/ NextTrack
  \/ Play
  \/ ResumeLoad
  \/ AudioMetadata

SpecModes == Init /\ [][NextModes]_vars

\* every operation
Next ==
  \/ NextPlayback
  \/ NextPlaylist
  \/ NextParams
  \/ NextBackends
  \/ NextLoads
  \/ NextEffects
  \/ NextMode
  \/ NextEngine
  \/ NextPolling
  \/ NextMedia
  \/ NextNav
  \/ NextSettings
  \/ NextModes
  \/ NextOverlap
  \/ NextGraph
  \/ NextQueue

Spec == Init /\ [][Next]_vars

----------------------------------------------------------------------------
(* Properties of the parameter store *)

ClampGain(g) == Max(MinGain, Min(MaxGain, g))

ClampVolume(v) == Max(0, Min(MaxVolume, v))

\* C1: after setEqualizerBand(i, g) with i in 0..9 the stored gain of band i,
\* and the gain of the engine's filter i once the audio graph exists, equal
\* clamp(g, -12, 12); every stored band gain lies in [-12, 12].
C1_BandGainClamped ==
  /\ (op.name = "setEqualizerBand" /\ op.args[1] \in 0..(NumBands - 1)) =>
       /\ state.equalizerBands[op.args[1] + 1] = ClampGain(op.args[2])
       /\ engine.graph => engine.eq[op.args[1] + 1] = ClampGain(op.args[2])
  /\ \A i \in 1..NumBands : state.equalizerBands[i] \in MinGain..MaxGain

\* C2: after setVolume(v) the stored volume, and the engine's master gain when
\* the engine is the source and its graph exists, equal clamp(v, 0, 1); the
\* stored volume lies in [0, 1] in every reachable state.
C2_VolumeClamped ==
  /\ op.name = "setVolume" =>
       /\ state.volume = ClampVolume(op.args[1])
       /\ (engine.graph /\ state.externalSource = "none") =>
             engine.gain = ClampVolume(op.args[1])
  /\ state.volume \in 0..MaxVolume

----------------------------------------------------------------------------
(* Properties of the playlist *)

\* C3: currentTrackIndex lies in [-1, playlist.length - 1] in every reachable
\* state.
C3_IndexInRange ==
  state.currentTrackIndex \in (0 - 1)..(Len(state.playlist) - 1)

\* C4: the ids of the playlist's tracks are pairwise distinct in every
\* reachable state.
C4_UniqueIds ==
  \A i \in 1..Len(state.playlist), j \in 1..Len(state.playlist) :
    (i # j /\ IsTrack(state.playlist[i]) /\ IsTrack(state.playlist[j]))
      => state.playlist[i].id # state.playlist[j].id

\* addToPlaylist was given ids that were taken: one entry carries the first
\* suffix of "a", another the suffix of that suffix
C4_Witness ==
  /\ op.name = "addToPlaylist"
  /\ Len(state.playlist) = 3
  /\ \E i \in 1..3 : state.playlist[i].id = "a"
  /\ \E i \in 1..3 : state.playlist[i] = [id |-> "a-2", src |-> "a.mp3"]
  /\ state.playlist[3] = [id |-> "a-2-2", src |-> "c.mp3"]

\* loadTrack(track) was called in this step: isLoading is set, the track is
\* the current track, and the engine holds a new element of its source or, on
\* the very first load, is about to once initialize() has returned
LoadIssued(track) ==
  /\ state'.isLoading
  /\ state'.currentTrack = track
  /\ loads' # <<>>
  /\ loads'[Len(loads')].track = track
  /\ loads'[Len(loads')].phase = "loadAudio" => engine'.currentAudio = NewAudio(track.src)

AtLastIndex ==
  /\ Len(state.playlist) > 0
  /\ state.currentTrackIndex = Len(state.playlist) - 1

\* C5: nextTrack() at the last playlist index with repeatMode 'all' sets
\* currentTrackIndex to 0 and loads playlist[0].
C5_NextTrackWraps ==
  [][(op'.name = "nextTrack" /\ AtLastIndex /\ state.repeatMode = "all")
       => (state'.currentTrackIndex = 0 /\ LoadIssued(state.playlist[1]))]_vars

\* nextTrack wrapped from the last of two entries to the first
C5_Witness ==
  /\ op.name = "nextTrack" /\ op.path = "wrap"
  /\ Len(state.playlist) = 2
  /\ state.currentTrackIndex = 0
  /\ state.currentTrack = state.playlist[1]
  /\ state.isLoading

\* C6: nextTrack() at the last playlist index with repeatMode 'none' leaves
\* currentTrackIndex, the engine (its source and position), the pending loads
\* and isLoading as they were: the current track is not reloaded.
C6_NextTrackAtEndKeepsTrack ==
  [][(op'.name = "nextTrack" /\ AtLastIndex /\ state.repeatMode = "none")
       => /\ state'.currentTrackIndex = state.currentTrackIndex
          /\ engine' = engine
          /\ loads' = loads
          /\ state'.isLoading = state.isLoading
          /\ state'.currentTime = state.currentTime]_vars

----------------------------------------------------------------------------
(* Properties of the frame callback *)

\* the engine is the source and the frame callback finds the end of the track
EndDetected ==
  /\ state.externalSource = "none"
  /\ state.isPlaying
  /\ AtEnd(EngineGetCurrentTime(World), EngineGetDuration(World))

\* C7: a frame tick that detects the end of the track with repeatMode not
\* 'one' and a next track to go to leaves the index and the current track
\* nextTrack() would: currentTrackIndex is the next index (0 on a wrap) and
\* the current track is the playlist's entry there.
C7_TickAdvancesIndex ==
  [][(/\ op'.name = "updateTime"
      /\ EndDetected
      /\ state.repeatMode # "one"
      /\ Len(state.playlist) > 0
      /\ (state.repeatMode = "all" \/ state.currentTrackIndex < Len(state.playlist) - 1))
       => /\ state'.currentTrackIndex = NextIndex(state)
          /\ state'.currentTrack = At(state.playlist, NextIndex(state))]_vars

\* C8: a frame tick that detects the end of the track with repeatMode 'one'
\* sets the engine position to 0 and playback continues on the same element:
\* isPlaying stays true, currentTrackIndex and currentTrack are unchanged.
C8_RepeatOneRestarts ==
  [][(op'.name = "updateTime" /\ EndDetected /\ state.repeatMode = "one")
       => /\ engine'.currentAudio.currentTime = 0
          /\ ~engine'.currentAudio.paused
          /\ engine'.currentAudio.src = engine.currentAudio.src
          /\ state'.isPlaying
          /\ state'.currentTrackIndex = state.currentTrackIndex
          /\ state'.currentTrack = state.currentTrack
          /\ loads' = loads]_vars

\* the tick took the repeat-one branch and the element plays from 0
C8_Witness ==
  /\ op.name = "updateTime" /\ op.path = "repeatOne"
  /\ state.isPlaying
  /\ state.repeatMode = "one"
  /\ engine.currentAudio.currentTime = 0
  /\ ~engine.currentAudio.paused

\* the tick pauses and does nothing else to the session
TickPauses ==
  /\ ~state'.isPlaying
  /\ loads' = loads
  /\ engine' = engine
  /\ state'.isLoading = state.isLoading
  /\ state'.currentTrack = state.currentTrack
  /\ state'.playlist = state.playlist
  /\ state'.currentTrackIndex = state.currentTrackIndex

CurrentTrackInPlaylist ==
  \E i \in 1..Len(state.playlist) : state.playlist[i] = state.currentTrack

\* C9, as claimed: when the end of the track is detected with repeatMode
\* 'none' and the playlist is empty, or the index is at or past the last
\* entry, or the current track is not a playlist entry, the tick sets
\* isPlaying to false, loads nothing and leaves playlist and index unchanged.
C9_PausesWithoutNextAsClaimed ==
  [][(/\ op'.name = "updateTime"
      /\ EndDetected
      /\ state.repeatMode = "none"
      /\ \/ state.playlist = <<>>
         \/ state.currentTrackIndex >= Len(state.playlist) - 1
         \/ ~CurrentTrackInPlaylist)
       => TickPauses]_vars

\* C9: when the end of the track is detected with repeatMode 'none' and
\* currentTrackIndex is at or past the last playlist index (an empty playlist
\* included), the tick sets isPlaying to false, loads nothing and leaves
\* playlist and currentTrackIndex unchanged.
C9_PausesAtLastIndex ==
  [][(/\ op'.name = "updateTime"
      /\ EndDetected
      /\ state.repeatMode = "none"
      /\ state.currentTrackIndex >= Len(state.playlist) - 1)
       => TickPauses]_vars

\* the last entry of the playlist played to its end and the tick paused
C9_Witness ==
  /\ op.name = "updateTime" /\ op.path = "pause"
  /\ ~state.isPlaying
  /\ state.repeatMode = "none"
  /\ Len(state.playlist) > 0
  /\ state.currentTrackIndex = Len(state.playlist) - 1
  /\ loads = <<>>

----------------------------------------------------------------------------
(* Properties of clearPlaylist *)

Cleared ==
  /\ ~state.isPlaying
  /\ state.currentTrackIndex = 0 - 1
  /\ state.playlist = <<>>

\* the steps that run without a call: frame ticks, load continuations, media
\* and player events
PendingSteps ==
  {"updateTime", "loadAudio.resume", "loadTrack.resume", "loadedmetadata",
   "audio.advance", "loadYouTube.resume", "yt.onStateChange", "yt.advance"}

----------------------------------------------------------------------------
(* Properties of loads *)

LoadTrackSteps == {"loadTrack", "loadAudio.resume", "loadTrack.resume", "audio.error"}

\* C11: a loadTrack call whose source fails leaves the playlist and
\* currentTrackIndex as they were, from the call to the element's failure,
\* and isPlaying is false once the source of an element that was not
\* started since its load has failed.
C11_FailedLoadStopsPlayback ==
  [][/\ op'.name \in LoadTrackSteps =>
          /\ state'.playlist = state.playlist
          /\ state'.currentTrackIndex = state.currentTrackIndex
     /\ (op'.name = "audio.error" /\ engine.currentAudio.paused) =>
          ~state'.isPlaying]_vars

\* what the caller of loadTrack gets: an async function whose body is one
\* try/catch never rejects
LoadTrackResult == IF loads # <<>> THEN "pending" ELSE "fulfilled"

\* C12: when the source of the loaded track has failed, the caller can see
\* it: the promise of loadTrack is rejected or the session state holds an
\* error value.
C12_FailureSurfaced ==
  (HasAudio(World) /\ engine.currentAudio.error) =>
    (LoadTrackResult = "rejected" \/ "error" \in DOMAIN state)

\* C13: isLoading is true only while something that clears it is pending: a
\* continuation of loadTrack or a loadYouTube call that will resume.
C13_LoadingAlwaysEnds ==
  state.isLoading => (loads # <<>> \/ ytLoads > 0)

\* C14: 'loadedmetadata' of an element that a later load replaced changes
\* nothing in the session state.
C14_SupersededMetadataIsInert ==
  [][(op'.name = "loadedmetadata" /\ op'.path = "replaced") => state' = state]_vars

\* the source nodes known to be connected to gainNode
ConnectedSources ==
  (IF HasAudio(World) /\ engine.currentAudio.connected THEN 1 ELSE 0)
    + (IF engine.staleSources THEN 1 ELSE 0)

\* C15: at most one source node is connected to the master gain.
C15_OneConnectedSource == ConnectedSources <= 1

----------------------------------------------------------------------------
(* Properties of the effects and the equalizer *)

GroupValue(effects, group) ==
  IF group = "reverb" THEN effects.reverb.roomSize
  ELSE IF group = "chorus" THEN effects.chorus.rate
  ELSE IF group = "distortion" THEN effects.distortion.amount
  ELSE effects.compressor.threshold

\* C16: updateEffects for one group changes that group only, and after two
\* calls in one task for two groups both groups hold the values given; every
\* other group keeps its value.
C16_NoLostEffectUpdate ==
  [][op'.name = "updateEffects" =>
       \A g \in EffectGroups :
         GroupValue(state'.effects, g) =
           IF Len(op'.args) = 4 /\ g = op'.args[3] THEN op'.args[4]
           ELSE IF g = op'.args[1] THEN op'.args[2]
           ELSE GroupValue(state.effects, g)]_vars

EngineMirrorsState ==
  /\ engine.gain = ClampVolume(state.volume)
  /\ engine.eq = state.equalizerBands
  /\ engine.compressor = state.effects.compressor.threshold
  /\ engine.distortion = state.effects.distortion.amount

\* C17: when a loadTrack finishes, the engine's master volume, band gains,
\* compressor and distortion are those of the session state at that moment.
C17_LoadReappliesCurrentState ==
  [][op'.name = "loadTrack.resume" => EngineMirrorsState']_vars

\* C18: after setMode(m) the equalizer bands are the table vector of m, in
\* the session state and, once the graph exists, in the engine; bass-boost
\* gives [6,4,2,1,0,0,0,0,0,0].
C18_ModeSetsTable ==
  [][op'.name = "setMode" =>
       /\ state'.mode = op'.args[1]
       /\ state'.equalizerBands = ModeEQ(op'.args[1])
       /\ engine.graph => engine'.eq = ModeEQ(op'.args[1])
       /\ op'.args[1] = "bass-boost" =>
            state'.equalizerBands = <<6, 4, 2, 1, 0, 0, 0, 0, 0, 0>>]_vars

\* setMode('bass-boost') over bands that were edited by hand
C18_Witness ==
  /\ op.name = "setMode" /\ op.path = "edited" /\ op.args[1] = "bass-boost"
  /\ state.equalizerBands = <<6, 4, 2, 1, 0, 0, 0, 0, 0, 0>>
  /\ engine.graph
  /\ engine.eq = state.equalizerBands

\* C19: setEqualizerBand with an index outside 0..9 leaves the stored bands
\* and the engine unchanged and raises no error.
C19_OutOfRangeBandIsNoOp ==
  [][(op'.name = "setEqualizerBand" /\ op'.args[1] \notin 0..(NumBands - 1)) =>
       /\ state' = state
       /\ engine' = engine
       /\ op'.path # "TypeError"]_vars

\* setEqualizerBand(10, g) and (-1, g) over an engine with its graph and
\* bands that are not flat
C19_Witness ==
  /\ op.name = "setEqualizerBand"
  /\ op.args[1] \in {0 - 1, NumBands}
  /\ engine.graph
  /\ state.equalizerBands # FlatEQ
  /\ engine.eq = state.equalizerBands

\* C20: setEqualizerPreset with a name that is not a preset key changes
\* neither the stored bands nor the engine and raises no error; with a
\* preset key the stored bands become that preset's vector.
C20_UnknownPresetIsNoOp ==
  [][op'.name = "setEqualizerPreset" =>
       IF op'.args[1] \in PresetKeys
       THEN state'.equalizerBands = equalizerPresets[op'.args[1]]
       ELSE /\ state'.equalizerBands = state.equalizerBands
            /\ engine' = engine
            /\ op'.path # "TypeError"]_vars

----------------------------------------------------------------------------
(* Properties of disposal and of the polling *)

\* C21: after the provider's cleanup has disposed the engine, playback is
\* stopped, no source node is connected, the context is released and no
\* frame callback is pending; a further dispose() fails in no way, not even
\* in the close() of the context, and leaves the engine as it was.
C21_DisposeIdempotent ==
  [][/\ op'.name = "unmount" =>
          /\ HasAudio(World) => engine'.currentAudio.paused
          /\ ConnectedSources' = 0
          /\ engine'.context # "running"
          /\ ~frame' /\ page'.strays = 0
     /\ op'.name = "dispose" =>
          /\ op'.path # "InvalidStateError"
          /\ engine' = engine]_vars

PendingFrames == (IF frame THEN 1 ELSE 0) + page.strays

\* C22: at most one frame callback is pending; while the engine is the source
\* and isPlaying is false, and after the provider has unmounted, none is
\* pending once the effects have run, also when the pending tick ran between
\* the pause and the commit.
C22_PollingStopsWithPlayback ==
  /\ PendingFrames <= 1
  /\ (state.externalSource = "none" /\ ~state.isPlaying) => PendingFrames = 0
  /\ ~page.mounted => PendingFrames = 0

\* pause() overtaken by the pending tick, at the end of the track
C22_Witness ==
  /\ op.name = "pause" /\ op.path = "tick before commit"
  /\ HasAudio(World) /\ engine.currentAudio.duration > 0
  /\ state.currentTime >= state.duration - EndEpsilon
  /\ ~state.isPlaying
  /\ PendingFrames = 0

----------------------------------------------------------------------------
(* Properties of the media session and of seeking *)

\* C23: a play, pause, next or previous command of the media session, through
\* the handlers a track load registered, changes the session state as play(),
\* pause(), nextTrack() or previousTrack() called at that moment would.
C23_MediaCommandsAreTheOperations ==
  [][op'.path = "track" =>
       /\ op'.name = "media.play" => state' = DoPlay(World, state).state
       /\ op'.name = "media.pause" => state' = DoPause(World, state).state
       /\ op'.name = "media.nexttrack" => state' = DoNextTrack(World, state).state
       /\ op'.name = "media.previoustrack" =>
            state' = DoPreviousTrack(World, state).state]_vars

\* C24: 'seekto' with a time t in [0, duration], through the handlers a track
\* load registered, does what seekTo(t) does: the position is t.  The
\* positions the session has and had at the registration are in [0, duration].
C24_SeekToIsAbsolute ==
  [][(/\ op'.name = "media.seekto" /\ op'.path = "track"
      /\ op'.args[1] >= 0 /\ op'.args[1] <= state.duration
      /\ state.currentTime >= 0 /\ state.currentTime <= state.duration
      /\ page.handlers.c.currentTime >= 0
      /\ page.handlers.c.currentTime <= MediaLen) =>
       /\ state'.currentTime = op'.args[1]
       /\ state' = DoSeekTo(World, state, op'.args[1]).state
       /\ engine' = DoSeekTo(World, state, op'.args[1]).engine]_vars

ClampTime(time, duration) == Max(0, Min(duration, time))

\* C26: after seekTo(t) the session's currentTime is clamp(t, 0, duration).
C26_SeekIsClamped ==
  [][op'.name = "seekTo" =>
       state'.currentTime = ClampTime(op'.args[1], state.duration)]_vars

----------------------------------------------------------------------------
(* Properties of the transport and of the playlist navigation *)

\* C25: while currentTrack is null, play() neither sets isPlaying nor starts
\* the engine's element or the YouTube player.
C25_PlayNeedsTrack ==
  [][(op'.name = "play" /\ state.currentTrack = NoTrack) =>
       /\ state' = state
       /\ engine' = engine
       /\ yt' = yt]_vars

\* C27: previousTrack() on a non-empty playlist sets currentTrackIndex to
\* length-1 (repeatMode 'all') or 0 (otherwise) from index 0 or -1, and to
\* index-1 from any index > 0; the playlist entry at the new index is loaded.
C27_PreviousTrackLoadsEntry ==
  [][(op'.name = "previousTrack" /\ Len(state.playlist) > 0) =>
       /\ state'.currentTrackIndex =
            IF state.currentTrackIndex <= 0
            THEN (IF state.repeatMode = "all" THEN Len(state.playlist) - 1 ELSE 0)
            ELSE state.currentTrackIndex - 1
       /\ state'.currentTrackIndex < Len(state.playlist)
       /\ LoadIssued(At(state.playlist, state'.currentTrackIndex))]_vars

\* C28: on an empty playlist nextTrack() and previousTrack() change nothing:
\* no field of the state, no load, nothing in the engine.
C28_EmptyPlaylistNoOp ==
  [][(op'.name \in {"nextTrack", "previousTrack"} /\ Len(state.playlist) = 0) =>
       /\ state' = state
       /\ loads' = loads
       /\ engine' = engine
       /\ stale' = stale]_vars

\* previousTrack() with repeatMode 'all' on a playlist emptied after a load
C28_Witness ==
  /\ op.name = "previousTrack" /\ op.path = "empty"
  /\ state.playlist = <<>>
  /\ state.repeatMode = "all"
  /\ state.currentTrack # NoTrack
  /\ HasAudio(World)

----------------------------------------------------------------------------
(* Properties of the parameter store *)

\* equalizerBands, effects, volume, mode, repeatMode and the shuffle flag
ParameterState(s) ==
  <<s.equalizerBands, s.effects, s.volume, s.mode, s.repeatMode, s.isShuffled>>

\* the steps of a track change: the calls, the continuations of loadTrack
\* and the frame callback that advances at the end of a track
TrackChangeSteps ==
  {"loadTrack", "loadAudio.resume", "loadTrack.resume", "nextTrack",
   "previousTrack", "playTrackAtIndex", "updateTime"}

\* C29: loadTrack, nextTrack, previousTrack, playTrackAtIndex and the advance
\* at the end of a track leave equalizerBands, effects, volume, mode,
\* repeatMode and the shuffle flag of the state unchanged.
C29_TrackChangesKeepParameters ==
  [][op'.name \in TrackChangeSteps =>
       ParameterState(state') = ParameterState(state)]_vars

\* the frame callback has advanced to the next track of a session whose
\* parameters all differ from the initial ones
C29_Witness ==
  /\ op.name = "updateTime" /\ op.path = "advance"
  /\ loads # <<>>
  /\ state.volume = 40
  /\ state.mode = "bass-boost"
  /\ state.equalizerBands = ModeEQ("bass-boost")
  /\ state.effects.reverb.roomSize = 10
  /\ state.repeatMode = "all"
  /\ state.isShuffled

\* C30: setMode(m) changes the mode and the equalizer bands and nothing else:
\* the effects, the volume, the playlist, currentTrackIndex and the transport
\* (track, isPlaying, position, duration, the element, the pending loads) are
\* after the call what they were before it, for every mode m.
C30_SetModeKeepsTheRest ==
  [][op'.name = "setMode" =>
       /\ state' = [state EXCEPT !.mode = op'.args[1],
                                 !.equalizerBands = state'.equalizerBands]
       /\ engine' = [engine EXCEPT !.eq = engine'.eq]
       /\ loads' = loads
       /\ yt' = yt]_vars

\* setMode on a playing session with a playlist, an edited volume and an
\* edited compressor; the call changed the bands
C30_Witness ==
  /\ op.name = "setMode" /\ op.args[1] = "vocal-enhance"
  /\ state.mode = "vocal-enhance"
  /\ state.equalizerBands = ModeEQ("vocal-enhance")
  /\ state.effects.compressor.threshold = 0 - 10
  /\ state.volume = 40
  /\ Len(state.playlist) = 1 /\ state.currentTrackIndex = 0
  /\ state.isPlaying /\ HasAudio(World) /\ ~engine.currentAudio.paused

\* C31: the stored equalizer has exactly ten bands in every reachable state,
\* whatever setEqualizerBand (any index), setEqualizerPreset (any name) and
\* setMode were called with.
C31_TenBands ==
  /\ DOMAIN state.equalizerBands = 1..NumBands
  /\ NumBands = 10

\* a mode, then a band edit, then a preset name that is inherited; band
\* indices outside 0..9 are among the inputs
C31_Witness ==
  /\ op.name = "setEqualizerPreset" /\ op.args[1] = "toString"
  /\ state.mode = "instrument-focus"
  /\ state.equalizerBands = [ModeEQ("instrument-focus") EXCEPT ![1] = 13]
  /\ NumBands \in ModeBandInputs /\ 0 - 1 \in ModeBandInputs

----------------------------------------------------------------------------
(* Properties of stop, of the playlist and of the node graph *)

\* C32: after stop() on the engine source isPlaying is false and the position
\* is 0 in the engine's element and in the state, while currentTrack, the
\* playlist and currentTrackIndex are what they were; so it is when the frame
\* callback that was pending ran after stop() and before the commit.
C32_StopRewinds ==
  [][(op'.name = "stop" /\ state.externalSource = "none") =>
       /\ ~state'.isPlaying
       /\ state'.currentTime = 0
       /\ EngineGetCurrentTime([engine |-> engine']) = 0
       /\ (engine'.currentAudio # NoAudio => engine'.currentAudio.paused)
       /\ state'.currentTrack = state.currentTrack
       /\ state'.playlist = state.playlist
       /\ state'.currentTrackIndex = state.currentTrackIndex]_vars

\* stop() overtaken by the pending tick, on a loaded track of a playlist
C32_Witness ==
  /\ op.name = "stop" /\ op.path = "tick before commit"
  /\ HasAudio(World) /\ engine.currentAudio.duration > 0
  /\ engine.currentAudio.currentTime = 0
  /\ state.currentTrack = TrackA
  /\ state.playlist # <<>>
  /\ state.duration > 0
  /\ state.currentTime = 0

\* the entry addToPlaylist appended in this step, and the ids before it
AppendedOnly ==
  /\ Len(state'.playlist) = Len(state.playlist) + 1
  /\ SubSeq(state'.playlist, 1, Len(state.playlist)) = state.playlist

\* id is base when base is free, and otherwise base-k for the smallest k >= 2
\* whose suffixed id is free
IsFreeId(id, base, existingIds) ==
  IF base \notin existingIds THEN id = base
  ELSE \E k \in 2..(Cardinality(existingIds) + 2) :
         /\ id = Suffixed(base, k)
         /\ id \notin existingIds
         /\ \A j \in 2..(k - 1) : Suffixed(base, j) \in existingIds

LinearPath ==
  <<"gain", "filter32", "filter64", "filter125", "filter250", "filter500",
    "filter1000", "filter2000", "filter4000", "filter8000", "filter16000",
    "compressor", "distortion", "analyser", "destination">>

PathEdges(path) == {<<path[i], path[i + 1]>> : i \in 1..(Len(path) - 1)}

\* the calls that set a parameter of a node
SetterSteps ==
  {"setVolume", "setEqualizerBand", "setEqualizerPreset", "setMode", "updateEffects"}

----------------------------------------------------------------------------
(* Properties of overlapping and replacing loads *)

\* C35: when a load that replaced the source while isPlaying was true has
\* completed, the new element is playing or isPlaying is false.  (No other
\* handler runs between the call and its completion; staleSources tells
\* that the load replaced a source.)
C35_NoSilentPlaying ==
  [][(op'.name = "loadTrack.resume" /\ state.isPlaying /\ engine.staleSources) =>
       \/ ~state'.isPlaying
       \/ (engine'.currentAudio # NoAudio /\ ~engine'.currentAudio.paused)]_vars

\* C36: whenever currentTrackIndex is an index of the playlist, currentTrack
\* is the playlist entry at that index (the same id).
C36_CurrentTrackAtIndex ==
  (state.currentTrackIndex >= 0 /\ state.currentTrackIndex < Len(state.playlist)) =>
    /\ IsTrack(state.currentTrack)
    /\ IsTrack(At(state.playlist, state.currentTrackIndex))
    /\ state.currentTrack.id = At(state.playlist, state.currentTrackIndex).id

\* C37: when loadTrack(A) and then loadTrack(B) were issued while the load of
\* A was pending, currentTrack is B, and once both loads have completed the
\* element of the engine is that of B.
C37_LastRequestWins ==
  [][/\ (op'.name = "loadTrack" /\ op'.path = "twice") =>
          state'.currentTrack = op'.args[2]
     /\ (op'.name = "loadTrack.resume" /\ loads' = <<>>) =>
          /\ engine'.currentAudio # NoAudio
          /\ engine'.currentAudio.src = state'.currentTrack.src]_vars

\* C38: isLoading is true while a loadTrack call has started and has not
\* finished, also after an older, overlapped call has completed.
C38_LoadingWhilePending ==
  loads # <<>> => state.isLoading

----------------------------------------------------------------------------
(* Properties of the two backends and of reordering *)

\* the engine's element is playing a medium
EngineAudible ==
  /\ HasAudio(World)
  /\ ~engine.currentAudio.paused
  /\ engine.currentAudio.duration > 0
  /\ ~engine.currentAudio.error

\* the YouTube player is playing
YouTubeAudible == yt.player /\ yt.intent

\* C39: the engine's element and the YouTube player are never both playing.
C39_OneBackendAudible == ~(EngineAudible /\ YouTubeAudible)

\* the entries of after are those of before, each as often
IsPermutation(after, before) ==
  /\ Len(after) = Len(before)
  /\ \A i \in 1..Len(after) : IsTrack(after[i])
  /\ \A i \in 1..Len(before) :
       Cardinality({j \in 1..Len(after) : after[j] = before[i]}) =
       Cardinality({j \in 1..Len(before) : before[j] = before[i]})

\* pl without its entry at the 0-based index i
Without(pl, i) == SubSeq(pl, 1, i) \o SubSeq(pl, i + 2, Len(pl))

\* C40: for every pair of integers (from, to), reorderPlaylist(from, to) over
\* a playlist that is not empty gives a permutation of it, none of whose
\* entries is undefined; with both indices inside the playlist the track that
\* was at from is at to and the other tracks keep their order.
C40_ReorderPermutes ==
  [][(op'.name = "reorderPlaylist" /\ state.playlist # <<>>
      /\ \A i \in 1..Len(state.playlist) : IsTrack(state.playlist[i])) =>
       \A from \in ReorderIndices, to \in ReorderIndices :
         state'.playlist = ReorderPlaylist(state.playlist, from, to) =>
           /\ IsPermutation(state'.playlist, state.playlist)
           /\ (from \in 0..(Len(state.playlist) - 1) /\ to \in 0..(Len(state.playlist) - 1)) =>
                /\ At(state'.playlist, to) = At(state.playlist, from)
                /\ Without(state'.playlist, to) = Without(state.playlist, from)]_vars

====
